---- MODULE Spec2Model ----
(***************************************************************************)
(* BinarySlicer: decoding of HID/Wiegand-style card payloads.              *)
(*                                                                         *)
(* Text that the program walks character by character (the user's input,   *)
(* bit strings) is a sequence of one-character strings; names and labels   *)
(* are plain strings.  Python's None is the empty tuple and a present      *)
(* value v is the one-element tuple <<v>>, so that an optional value can   *)
(* be compared with either.                                                *)
(***************************************************************************)
EXTENDS Integers, Sequences, FiniteSets, TLC

VARIABLES
  call,               \* the call of a module-level function: op, args, ret
  formats_doc,        \* App.formats_doc: the formats document
  FORMATS,            \* App.FORMATS: the normalized catalog, a dict
  show_fails,         \* the "Show parity failures" check box
  slice_mode,         \* the Leftmost/Rightmost radio buttons: "left", "right"
  last_binary_used,   \* App.last_binary_used
  last_rows_for_csv,  \* App.last_rows_for_csv
  last_format_checks, \* App.last_format_checks
  txt,                \* the Summary text widget: the pieces inserted
  tree,               \* the Table widget: its rows
  canvas,             \* the Parity Visualizer canvas: its items
  messagebox,         \* the dialog the last handler showed, or None
  rendered,           \* the calls of _render_format by the last on_calculate
  disk,               \* formats.json and formats.json.bak: the documents in them
  ops                 \* the format-management operations of the session so far

fnVars == <<call>>
appVars == <<formats_doc, FORMATS, show_fails, slice_mode, last_binary_used,
             last_rows_for_csv, last_format_checks, txt, tree, canvas,
             messagebox, rendered, disk, ops>>
vars == <<call, formats_doc, FORMATS, show_fails, slice_mode, last_binary_used,
          last_rows_for_csv, last_format_checks, txt, tree, canvas,
          messagebox, rendered, disk, ops>>

(***************************************************************************)
(* Bounds of the model.                                                    *)
(***************************************************************************)
MaxLen == 4       \* longest raw input string handed to process_input
MaxBits == 4      \* longest bit window handed to the decoding functions

None == <<>>
Some(v) == <<v>>

(***************************************************************************)
(* Utility: input normalisation.                                           *)
(***************************************************************************)
HEX_CHARS ==
  {"0","1","2","3","4","5","6","7","8","9",
   "a","b","c","d","e","f","A","B","C","D","E","F"}

\* str.strip() with no argument removes leading and trailing whitespace.
Whitespace == {" ", "\t"}

RECURSIVE lstrip(_)
lstrip(s) ==
  IF s /= <<>> /\ Head(s) \in Whitespace THEN lstrip(Tail(s)) ELSE s

RECURSIVE rstrip(_)
rstrip(s) ==
  IF s /= <<>> /\ s[Len(s)] \in Whitespace
    THEN rstrip(SubSeq(s, 1, Len(s) - 1))
    ELSE s

clean_input(s) == rstrip(lstrip(s))

\* s.replace(ch, "") for a one-character ch
replace_char(s, ch) == SelectSeq(s, LAMBDA c : c /= ch)

\* s.startswith(p)
startswith(s, p) == Len(s) >= Len(p) /\ SubSeq(s, 1, Len(p)) = p

\* is_binary without its length test
is_binary_no_len(s) == \A i \in 1..Len(s) : s[i] \in {"0", "1"}

is_binary(s) == (\A i \in 1..Len(s) : s[i] \in {"0", "1"}) /\ Len(s) > 0

\* is_hex without its length test
is_hex_no_len(s) == \A i \in 1..Len(s) : s[i] \in HEX_CHARS

is_hex(s) == (\A i \in 1..Len(s) : s[i] \in HEX_CHARS) /\ Len(s) > 0

\* the value int() gives one base-16 digit, either case
hex_digit_value(c) ==
  CASE c \in {"0"} -> 0  [] c \in {"1"} -> 1  [] c \in {"2"} -> 2
    [] c \in {"3"} -> 3  [] c \in {"4"} -> 4  [] c \in {"5"} -> 5
    [] c \in {"6"} -> 6  [] c \in {"7"} -> 7  [] c \in {"8"} -> 8
    [] c \in {"9"} -> 9
    [] c \in {"a", "A"} -> 10  [] c \in {"b", "B"} -> 11
    [] c \in {"c", "C"} -> 12  [] c \in {"d", "D"} -> 13
    [] c \in {"e", "E"} -> 14  [] c \in {"f", "F"} -> 15

\* int(s, base) for a string of digits of that base
RECURSIVE int_of(_, _)
int_of(s, base) ==
  IF s = <<>> THEN 0
  ELSE int_of(SubSeq(s, 1, Len(s) - 1), base) * base
         + hex_digit_value(s[Len(s)])

\* bin(n)[2:]: the binary digits of n >= 0 without leading zeros, "0" for 0
RECURSIVE bin_digits(_)
bin_digits(n) ==
  IF n < 2 THEN <<IF n = 1 THEN "1" ELSE "0">>
  ELSE bin_digits(n \div 2) \o <<IF n % 2 = 1 THEN "1" ELSE "0">>

\* s.zfill(width)
zfill(s, width) ==
  IF Len(s) >= width THEN s
  ELSE [i \in 1..(width - Len(s)) |-> "0"] \o s

\* hex_to_binary without the zfill: leading zero bits are lost
hex_to_binary_no_zfill(hex_string) ==
  IF hex_string /= <<>> /\ \A i \in 1..Len(hex_string) : hex_string[i] \in HEX_CHARS
    THEN Some(bin_digits(int_of(hex_string, 16)))
    ELSE None

\* hex_to_binary without the [2:] that drops the 0b of bin()
hex_to_binary_keep_0b(hex_string) ==
  IF hex_string /= <<>> /\ \A i \in 1..Len(hex_string) : hex_string[i] \in HEX_CHARS
    THEN Some(zfill(<<"0", "b">> \o bin_digits(int_of(hex_string, 16)),
                    Len(hex_string) * 4))
    ELSE None

\* int() raises ValueError on a string that is not all base-16 digits
hex_to_binary(hex_string) ==
  IF hex_string /= <<>> /\ \A i \in 1..Len(hex_string) : hex_string[i] \in HEX_CHARS
    THEN Some(zfill(bin_digits(int_of(hex_string, 16)), Len(hex_string) * 4))
    ELSE None

strip_prefix(s) ==
  IF startswith(s, <<"0", "x">>) \/ startswith(s, <<"0", "X">>)
    THEN SubSeq(s, 3, Len(s))
    ELSE s

\* cleaned without the removal of the underscores
cleaned_keep_underscore(input_string) ==
  strip_prefix(
    replace_char(replace_char(clean_input(input_string), " "), "-"))

\* the string process_input classifies: stripped, separators removed,
\* one leading 0x/0X removed
cleaned(input_string) ==
  strip_prefix(
    replace_char(replace_char(replace_char(clean_input(input_string), " "), "-"), "_"))

ERR_INVALID_HEX == "Invalid hex input."
ERR_INVALID_INPUT == "Input must be hex or binary (e.g., 0x1A2B, 1100101)."

\* process_input testing is_hex before is_binary
process_input_hex_first(input_string) ==
  LET s == cleaned(input_string) IN
  IF is_hex(s) THEN
    LET b == hex_to_binary(s) IN
    IF b = None THEN [bits |-> None, err |-> Some(ERR_INVALID_HEX)]
    ELSE [bits |-> b, err |-> None]
  ELSE IF is_binary(s) THEN [bits |-> Some(s), err |-> None]
  ELSE [bits |-> None, err |-> Some(ERR_INVALID_INPUT)]

process_input(input_string) ==
  LET s == cleaned(input_string) IN
  IF is_binary(s) THEN [bits |-> Some(s), err |-> None]
  ELSE IF is_hex(s) THEN
    LET b == hex_to_binary(s) IN
    IF b = None THEN [bits |-> None, err |-> Some(ERR_INVALID_HEX)]
    ELSE [bits |-> b, err |-> None]
  ELSE [bits |-> None, err |-> Some(ERR_INVALID_INPUT)]

(***************************************************************************)
(* Python values: slices, dicts (insertion-ordered: a sequence of          *)
(* <<key, value>> pairs with distinct keys), truth of an optional value.   *)
(***************************************************************************)
Min(a, b) == IF a < b THEN a ELSE b
Max(a, b) == IF a > b THEN a ELSE b

\* s[lo:hi]: a negative index counts from the end, both are clamped to the
\* string, and a slice whose start is not before its stop is empty
PySlice(s, lo, hi) ==
  LET n == Len(s)
      adj(i) == IF i < 0 THEN Max(i + n, 0) ELSE Min(i, n)
  IN IF adj(lo) >= adj(hi) THEN <<>> ELSE SubSeq(s, adj(lo) + 1, adj(hi))

\* s[lo:]
PySliceFrom(s, lo) == PySlice(s, lo, Len(s))

dict_keys(d) == [i \in 1..Len(d) |-> d[i][1]]

dict_has(d, k) == \E i \in 1..Len(d) : d[i][1] = k

\* d[k] for a key of d
dict_at(d, k) == d[CHOOSE i \in 1..Len(d) : d[i][1] = k][2]

\* d[k] = v: a key already in d keeps its place and takes the new value
dict_set(d, k, v) ==
  IF dict_has(d, k)
    THEN [i \in 1..Len(d) |-> IF d[i][1] = k THEN <<k, v>> ELSE d[i]]
    ELSE Append(d, <<k, v>>)

\* r.get(key, default) on a record r
rec_get(r, key, default) == IF key \in DOMAIN r THEN r[key] ELSE default

\* bool(v) of an optional boolean: None and False are false
truthy(v) == v /= None /\ v[1] = TRUE

\* str.lower() on the rule types of the model
lower(s) ==
  CASE s = "EVEN" -> "even"
    [] s = "Even" -> "even"
    [] s = "ODD" -> "odd"
    [] s = "Odd" -> "odd"
    [] OTHER -> s

\* a format of the catalog, and a rule of its parity_coverage list
FormatObj(bit_length, fields, parity_coverage) ==
  [bit_length |-> bit_length, fields |-> fields, parity_coverage |-> parity_coverage]

Rule(typ, ranges) == [type |-> typ, ranges |-> ranges]

(***************************************************************************)
(* Decoding core.                                                          *)
(***************************************************************************)
\* extract_bits with an exclusive end index
extract_bits_exclusive(binary_string, start, end) ==
  PySlice(binary_string, start, end)

\* inclusive end index extraction (0-based)
extract_bits(binary_string, start, end) == PySlice(binary_string, start, end + 1)

bits_to_int(bits) == IF bits /= <<>> THEN int_of(bits, 2) ELSE 0

\* format(n, "X"): upper-case hex digits of n >= 0, no fixed width
HexDigitsUpper == <<"0","1","2","3","4","5","6","7","8","9","A","B","C","D","E","F">>

RECURSIVE format_X(_)
format_X(n) ==
  IF n < 16 THEN <<HexDigitsUpper[n + 1]>>
  ELSE format_X(n \div 16) \o <<HexDigitsUpper[(n % 16) + 1]>>

\* one entry of the dict extract_fields builds
field_meta(binary_string, start, end) ==
  LET bits == extract_bits(binary_string, start, end) IN
  [bits |-> bits,
   int |-> bits_to_int(bits),
   hex |-> <<"0", "x">> \o format_X(bits_to_int(bits)),
   len |-> end - start + 1,
   range |-> <<start, end>>]

\* fmt_obj.fields is a dict name -> (start, end); so is the result, in the
\* same order
RECURSIVE extract_fields_from(_, _, _)
extract_fields_from(binary_string, items, fields) ==
  IF items = <<>> THEN fields
  ELSE LET field == Head(items)[1]
           start == Head(items)[2][1]
           end == Head(items)[2][2]
       IN extract_fields_from(binary_string, Tail(items),
            dict_set(fields, field, field_meta(binary_string, start, end)))

extract_fields(binary_string, fmt_obj) ==
  extract_fields_from(binary_string, fmt_obj.fields, <<>>)

\* bits.count('1')
RECURSIVE count_ones(_)
count_ones(bits) ==
  IF bits = <<>> THEN 0
  ELSE (IF Head(bits) = "1" THEN 1 ELSE 0) + count_ones(Tail(bits))

parity_even_bit_needed(bits) == IF count_ones(bits) % 2 = 0 THEN 0 ELSE 1

\* parity_odd_bit_needed answering like parity_even_bit_needed
parity_odd_as_even(bits) == IF count_ones(bits) % 2 = 0 THEN 0 ELSE 1

parity_odd_bit_needed(bits) == IF count_ones(bits) % 2 = 0 THEN 1 ELSE 0

\* the check verify_parity appends for one range of one rule
parity_check(binary_string, typ, s, e) ==
  LET data_bits == extract_bits(binary_string, s, e) IN
  [label |-> IF typ = "even" THEN "Even Parity" ELSE "Odd Parity",
   type |-> typ,
   coverage |-> <<s, e>>,
   expected |-> IF typ = "even" THEN parity_even_bit_needed(data_bits)
                ELSE parity_odd_bit_needed(data_bits),
   actual |-> None,
   ok |-> None,
   data_len |-> Len(data_bits)]

\* the inner loop of verify_parity: the ranges of one rule
RECURSIVE verify_ranges(_, _, _, _)
verify_ranges(binary_string, typ, ranges, result) ==
  IF ranges = <<>> THEN result
  ELSE verify_ranges(binary_string, typ, Tail(ranges),
         Append(result,
                parity_check(binary_string, typ, Head(ranges)[1], Head(ranges)[2])))

\* the outer loop of verify_parity: the rules
RECURSIVE verify_rules(_, _, _)
verify_rules(binary_string, rules, result) ==
  IF rules = <<>> THEN result
  ELSE verify_rules(binary_string, Tail(rules),
         verify_ranges(binary_string,
                       lower(rec_get(Head(rules), "type", "even")),
                       rec_get(Head(rules), "ranges", <<>>),
                       result))

\* parity_coverage is the list _normalize_formats builds (the dict form of
\* the older format table is never produced by it)
verify_parity(binary_string, fmt_obj) ==
  LET coverage == rec_get(fmt_obj, "parity_coverage", None) IN
  IF coverage = <<>> THEN <<>>
  ELSE verify_rules(binary_string, coverage, <<>>)

\* all(r.get("ok", True) for r in pv): a check whose "ok" is None counts as
\* false, since the key is present
RECURSIVE all_ok(_)
all_ok(pv) ==
  IF pv = <<>> THEN TRUE
  ELSE truthy(rec_get(Head(pv), "ok", Some(TRUE))) /\ all_ok(Tail(pv))

\* _parity_all_ok failing a format that has no parity check
_parity_all_ok_fails_empty(binary_string, fmt) ==
  LET pv == verify_parity(binary_string, fmt) IN
  IF pv = <<>> THEN FALSE ELSE all_ok(pv)

_parity_all_ok(binary_string, fmt) ==
  LET pv == verify_parity(binary_string, fmt) IN
  IF pv = <<>> THEN TRUE ELSE all_ok(pv)

\* _detect_formats comparing the wrong way round for compatible matches
RECURSIVE detect_from_swapped(_, _, _, _)
detect_from_swapped(n, items, exact, compatible) ==
  IF items = <<>> THEN [exact |-> exact, compatible |-> compatible]
  ELSE LET L == Head(items)[2].bit_length IN
       IF n = L
         THEN detect_from_swapped(n, Tail(items), Append(exact, Head(items)), compatible)
       ELSE IF n < L
         THEN detect_from_swapped(n, Tail(items), exact, Append(compatible, Head(items)))
       ELSE detect_from_swapped(n, Tail(items), exact, compatible)

_detect_formats_swapped(FORMATS_, binary_string) ==
  detect_from_swapped(Len(binary_string), FORMATS_, <<>>, <<>>)

\* the loop of _detect_formats over FORMATS.items()
RECURSIVE detect_from(_, _, _, _)
detect_from(n, items, exact, compatible) ==
  IF items = <<>> THEN [exact |-> exact, compatible |-> compatible]
  ELSE LET L == Head(items)[2].bit_length IN
       IF n = L
         THEN detect_from(n, Tail(items), Append(exact, Head(items)), compatible)
       ELSE IF n > L
         THEN detect_from(n, Tail(items), exact, Append(compatible, Head(items)))
       ELSE detect_from(n, Tail(items), exact, compatible)

_detect_formats(FORMATS_, binary_string) ==
  detect_from(Len(binary_string), FORMATS_, <<>>, <<>>)

(***************************************************************************)
(* Catalog normalization.  A raw format entry of the document is a record  *)
(* with the keys name, bit_length, fields, parity (any may be missing); a  *)
(* number of the document is an integer, so int() leaves it as it is.      *)
(***************************************************************************)
\* the dict comprehension over f.get("fields", [])
RECURSIVE normalize_fields(_, _)
normalize_fields(flds, out) ==
  IF flds = <<>> THEN out
  ELSE normalize_fields(Tail(flds),
         dict_set(out, Head(flds).name, <<Head(flds).start, Head(flds).end>>))

normalize_ranges(ranges) ==
  [i \in 1..Len(ranges) |-> <<ranges[i].start, ranges[i].end>>]

\* the loop over f.get("parity", []) without the test on the ranges
RECURSIVE normalize_parity_keep_empty(_, _)
normalize_parity_keep_empty(parity, parity_cov) ==
  IF parity = <<>> THEN parity_cov
  ELSE LET typ == lower(rec_get(Head(parity), "type", "even"))
           ranges == normalize_ranges(rec_get(Head(parity), "ranges", <<>>))
       IN normalize_parity_keep_empty(Tail(parity),
            Append(parity_cov, Rule(typ, ranges)))

\* the loop over f.get("parity", []): a rule without ranges is dropped
RECURSIVE normalize_parity(_, _)
normalize_parity(parity, parity_cov) ==
  IF parity = <<>> THEN parity_cov
  ELSE LET typ == lower(rec_get(Head(parity), "type", "even"))
           ranges == normalize_ranges(rec_get(Head(parity), "ranges", <<>>))
       IN normalize_parity(Tail(parity),
            IF ranges /= <<>> THEN Append(parity_cov, Rule(typ, ranges))
            ELSE parity_cov)

\* the loop over the entries keeping the first entry of a name
RECURSIVE normalize_from_keep_first(_, _)
normalize_from_keep_first(formats, out) ==
  IF formats = <<>> THEN out
  ELSE LET f == Head(formats) IN
       normalize_from_keep_first(Tail(formats),
         IF dict_has(out, rec_get(f, "name", "Format")) THEN out
         ELSE dict_set(out, rec_get(f, "name", "Format"),
                  FormatObj(rec_get(f, "bit_length", 0),
                            normalize_fields(rec_get(f, "fields", <<>>), <<>>),
                            normalize_parity(rec_get(f, "parity", <<>>), <<>>))))

RECURSIVE normalize_from(_, _)
normalize_from(formats, out) ==
  IF formats = <<>> THEN out
  ELSE LET f == Head(formats) IN
       normalize_from(Tail(formats),
         dict_set(out, rec_get(f, "name", "Format"),
                  FormatObj(rec_get(f, "bit_length", 0),
                            normalize_fields(rec_get(f, "fields", <<>>), <<>>),
                            normalize_parity(rec_get(f, "parity", <<>>), <<>>))))

_normalize_formats(doc) == normalize_from(rec_get(doc, "formats", <<>>), <<>>)

(***************************************************************************)
(* Calculate / Render.  A piece of the Summary text is a tuple whose first *)
(* element names the line; the running state of one on_calculate is the    *)
(* record st of what it has written so far.                                *)
(***************************************************************************)
\* textwrap.wrap of a string without blanks: chunks of `group` characters
RECURSIVE wrap_join(_, _)
wrap_join(rest, group) ==
  IF Len(rest) <= group THEN rest
  ELSE SubSeq(rest, 1, group) \o <<" ">>
         \o wrap_join(SubSeq(rest, group + 1, Len(rest)), group)

format_binary_groups(b, group) ==
  IF group <= 0 THEN b
  ELSE LET rem == Len(b) % group
           leading == IF rem = 0 THEN <<>> ELSE SubSeq(b, 1, rem) \o <<" ">>
           rest == SubSeq(b, rem + 1, Len(b))
       IN IF rest /= <<>> THEN leading \o wrap_join(rest, group) ELSE b

\* the status collapsed to a boolean: whatever is not a pass is a failure
parity_status_two_valued(r) == IF truthy(r.ok) THEN "OK" ELSE "FAIL"

\* "OK" if r["ok"] else ("FAIL" if r["ok"] is False else "(no parity bit)")
parity_status(r) ==
  IF truthy(r.ok) THEN "OK"
  ELSE IF r.ok = Some(FALSE) THEN "FAIL"
  ELSE "(no parity bit)"

\* the loop of _render_format over the extracted fields
RECURSIVE render_fields(_, _, _)
render_fields(st, name, fields) ==
  IF fields = <<>> THEN st
  ELSE LET field == Head(fields)[1]
           meta == Head(fields)[2]
       IN render_fields(
            [st EXCEPT
               !.txt = Append(@, <<"field", field, meta.int, meta.hex,
                                   meta.len, meta.bits>>),
               !.tree = Append(@, <<field, meta.range, meta.int, meta.hex>>),
               !.rows = Append(@, [Format |-> name, Field |-> field,
                                   Value |-> meta.int, Hex |-> meta.hex,
                                   BitLength |-> meta.len, Bits |-> meta.bits])],
            name, Tail(fields))

parity_lines(pv) ==
  [i \in 1..Len(pv) |->
     <<"parity", pv[i].type, pv[i].coverage, parity_status(pv[i]),
       pv[i].expected, pv[i].actual, pv[i].data_len>>]

\* the parity part of _render_format: pv is what verify_parity gave
render_parity(st, pv) ==
  [st EXCEPT !.txt = (IF pv /= <<>> THEN @ \o parity_lines(pv) ELSE @)
                       \o <<<<"text", "\n">>>>,
             !.checks = IF pv /= <<>> THEN pv ELSE @]

_render_format(st, binary_string, name, fmt) ==
  render_parity(
    render_fields(
      [st EXCEPT !.txt = Append(@, <<"format", name>>),
                 !.rendered = Append(@, [binary_string |-> binary_string,
                                         name |-> name, fmt |-> fmt])],
      name, extract_fields(binary_string, fmt)),
    verify_parity(binary_string, fmt))

\* the loop over the exact matches
RECURSIVE render_exact(_, _, _)
render_exact(st, binary_string, exact) ==
  IF exact = <<>> THEN st
  ELSE LET name == Head(exact)[1]
           fmt == Head(exact)[2]
       IN IF ~show_fails /\ ~_parity_all_ok(binary_string, fmt)
            THEN render_exact(st, binary_string, Tail(exact))
            ELSE render_exact(
                   [_render_format(st, binary_string, name, fmt)
                      EXCEPT !.rendered_any = TRUE],
                   binary_string, Tail(exact))

\* the window of a compatible match
use_bits_of(binary_string, L) ==
  IF slice_mode = "left" THEN PySlice(binary_string, 0, L)
  ELSE PySliceFrom(binary_string, -L)

\* the loop over the compatible matches, leaving at the first candidate it
\* does not render
RECURSIVE render_compatible_break(_, _, _)
render_compatible_break(st, binary_string, compatible) ==
  IF compatible = <<>> THEN st
  ELSE LET name == Head(compatible)[1]
           fmt == Head(compatible)[2]
           L == fmt.bit_length
           use_bits == use_bits_of(binary_string, L)
           suffix == IF slice_mode = "left" THEN " (leftmost)" ELSE " (rightmost)"
       IN IF ~show_fails /\ ~_parity_all_ok(use_bits, fmt)
            THEN st
            ELSE render_compatible_break(
                   [_render_format(st, use_bits, name \o suffix, fmt)
                      EXCEPT !.rendered_any = TRUE],
                   binary_string, Tail(compatible))

\* the loop over the compatible matches
RECURSIVE render_compatible(_, _, _)
render_compatible(st, binary_string, compatible) ==
  IF compatible = <<>> THEN st
  ELSE LET name == Head(compatible)[1]
           fmt == Head(compatible)[2]
           L == fmt.bit_length
           use_bits == use_bits_of(binary_string, L)
           suffix == IF slice_mode = "left" THEN " (leftmost)" ELSE " (rightmost)"
       IN IF ~show_fails /\ ~_parity_all_ok(use_bits, fmt)
            THEN render_compatible(st, binary_string, Tail(compatible))
            ELSE render_compatible(
                   [_render_format(st, use_bits, name \o suffix, fmt)
                      EXCEPT !.rendered_any = TRUE],
                   binary_string, Tail(compatible))

\* the items _draw_parity_visualizer leaves on the canvas
visualizer_items(binary_used, checks) ==
  IF binary_used = <<>> THEN <<>>
  ELSE LET n == Len(binary_used)
           rects(i) ==
             <<[item |-> "rectangle", from |-> checks[i].coverage[1],
                to |-> checks[i].coverage[2], of |-> n,
                fill |-> IF checks[i].type = "even" THEN "#00adff" ELSE "#75e600"]>>
             \o (IF checks[i].ok = Some(FALSE)
                   THEN <<[item |-> "rectangle", from |-> checks[i].coverage[1],
                           to |-> checks[i].coverage[2], of |-> n,
                           fill |-> "#ff4d4f"]>>
                   ELSE <<>>)
           RECURSIVE draw(_)
           draw(i) == IF i > Len(checks) THEN <<>> ELSE rects(i) \o draw(i + 1)
       IN <<[item |-> "line"]>> \o draw(1)

TXT_NO_MATCH == <<"text", "No matching formats found.\n">>
TXT_EXACT == <<"text", "== Exact bit-length matches ==\n">>
TXT_COMPATIBLE == <<"text", "== Compatible (input longer than known format) ==\n">>
TXT_FRAMING == <<"text", "These may indicate framing/padding.\n\n">>
TXT_NONE_PASSED ==
  <<"text", "No formats passed parity in strict mode.\nTip: Enable 'Show parity failures (diagnostic)' to inspect candidates.\n">>

\* on_calculate giving the strict-mode notice whenever the mode is strict
calculate_finish_strict_notice(binary_string, st) ==
  [messagebox |-> None,
   last_binary_used |-> binary_string,
   txt |-> IF st.rendered_any /\ show_fails THEN st.txt
           ELSE Append(st.txt, TXT_NONE_PASSED),
   tree |-> st.tree,
   last_rows_for_csv |-> st.rows,
   last_format_checks |-> st.checks,
   rendered |-> st.rendered,
   canvas |-> visualizer_items(binary_string, st.checks)]

\* on_calculate after the loops: st is what they wrote
calculate_finish(binary_string, st) ==
  [messagebox |-> None,
   last_binary_used |-> binary_string,
   txt |-> IF st.rendered_any THEN st.txt ELSE Append(st.txt, TXT_NONE_PASSED),
   tree |-> st.tree,
   last_rows_for_csv |-> st.rows,
   last_format_checks |-> st.checks,
   rendered |-> st.rendered,
   canvas |-> visualizer_items(binary_string, st.checks)]

calculate_compatible(binary_string, compatible, st) ==
  IF compatible /= <<>>
    THEN render_compatible([st EXCEPT !.txt = @ \o <<TXT_COMPATIBLE, TXT_FRAMING>>],
                           binary_string, compatible)
    ELSE st

calculate_exact(binary_string, exact, st) ==
  IF exact /= <<>>
    THEN render_exact([st EXCEPT !.txt = Append(@, TXT_EXACT)], binary_string, exact)
    ELSE st

\* on_calculate from the detection on: found is what _detect_formats gave
calculate_found(binary_string, header, found) ==
  IF found.exact = <<>> /\ found.compatible = <<>> THEN
    [messagebox |-> None,
     last_binary_used |-> binary_string,
     txt |-> <<header, TXT_NO_MATCH>>,
     tree |-> tree,
     last_rows_for_csv |-> last_rows_for_csv,
     last_format_checks |-> last_format_checks,
     rendered |-> <<>>,
     canvas |-> canvas]
  ELSE
    calculate_finish(binary_string,
      calculate_compatible(binary_string, found.compatible,
        calculate_exact(binary_string, found.exact,
          [txt |-> <<header>>, tree |-> <<>>, rows |-> <<>>, checks |-> <<>>,
           rendered |-> <<>>, rendered_any |-> FALSE])))

\* on_calculate clearing the summary and the table before it looks at the
\* input
calculate_input_clearing(r) ==
  IF r.err /= None THEN
    [messagebox |-> Some([kind |-> "error", title |-> "Error", text |-> r.err[1]]),
     last_binary_used |-> last_binary_used,
     txt |-> <<>>,
     tree |-> <<>>,
     last_rows_for_csv |-> last_rows_for_csv,
     last_format_checks |-> last_format_checks,
     rendered |-> rendered,
     canvas |-> canvas]
  ELSE
    calculate_found(r.bits[1],
                    <<"binary", Len(r.bits[1]), format_binary_groups(r.bits[1], 4)>>,
                    _detect_formats(FORMATS, r.bits[1]))

\* on_calculate from the result r of process_input on
calculate_input(r) ==
  IF r.err /= None THEN
    [messagebox |-> Some([kind |-> "error", title |-> "Error", text |-> r.err[1]]),
     last_binary_used |-> last_binary_used,
     txt |-> txt,
     tree |-> tree,
     last_rows_for_csv |-> last_rows_for_csv,
     last_format_checks |-> last_format_checks,
     rendered |-> rendered,
     canvas |-> canvas]
  ELSE
    calculate_found(r.bits[1],
                    <<"binary", Len(r.bits[1]), format_binary_groups(r.bits[1], 4)>>,
                    _detect_formats(FORMATS, r.bits[1]))

\* what on_calculate leaves in the decode state and the widgets
on_calculate(input_data) == calculate_input(process_input(input_data))

(***************************************************************************)
(* merge_formats: the entries of an incoming document merged into a base.  *)
(***************************************************************************)
\* names = {f.get("name"): i for i, f in enumerate(...)}: the index kept for
\* a name is the one of its last entry, 0 stands for an absent name
names_index(formats, nm) ==
  LET at == {i \in 1..Len(formats) : formats[i].name = nm} IN
  IF at = {} THEN 0 ELSE CHOOSE i \in at : \A j \in at : j <= i

\* the loop of merge_formats: names is computed once, from the base
RECURSIVE merge_from(_, _, _)
merge_from(formats, base_formats, incoming) ==
  IF incoming = <<>> THEN formats
  ELSE LET f == Head(incoming)
           i == names_index(base_formats, f.name)
       IN merge_from(IF i > 0 THEN [formats EXCEPT ![i] = f] ELSE Append(formats, f),
                     base_formats, Tail(incoming))

merge_formats(base, incoming) ==
  [base EXCEPT !.formats = merge_from(base.formats, base.formats,
                                      rec_get(incoming, "formats", <<>>))]

(***************************************************************************)
(* Inputs of the model.                                                    *)
(***************************************************************************)
Alphabet == {"0", "1", "2", "a", "F", "x", "X", "G", " ", "\t", "-", "_"}

StringsUpTo(chars, n) == UNION {[1..k -> chars] : k \in 0..n}

InputStrings == StringsUpTo(Alphabet, MaxLen)

\* bit windows: process_input never returns an empty bit string
BitStrings == StringsUpTo({"0", "1"}, MaxBits) \ {<<>>}

\* bit indexes of a range: inside every window, past the end of every window
\* and negative
Indexes == (-1)..MaxBits

Ranges == Indexes \X Indexes

SecondRanges == {<<0, 0>>, <<1, MaxBits - 1>>}

\* fields dicts of one or two fields
FieldDicts ==
  {<<>>}
    \cup {<<<<"Facility", r>>>> : r \in Ranges}
    \cup {<<<<"Facility", r>>, <<"Card", q>>>> : r \in Ranges, q \in SecondRanges}

RuleTypes == {"even", "odd"}

\* parity coverage lists of one or two rules, of one or two ranges each
CoverageLists ==
  {<<>>}
    \cup {<<Rule(t, <<r>>)>> : t \in RuleTypes, r \in Ranges}
    \cup {<<Rule(t, <<r, q>>)>> : t \in RuleTypes, r \in Ranges, q \in SecondRanges}
    \cup {<<Rule(t, <<r>>), Rule(u, <<q>>)>> :
            t \in RuleTypes, u \in RuleTypes, r \in Ranges, q \in SecondRanges}

\* catalogs of up to three formats, of every bit length around the windows'
BitLengths == (-1)..(MaxBits + 1)

CatalogNames == <<"H10301", "H10306", "CSN">>

Catalogs ==
  UNION {{[i \in 1..k |-> <<CatalogNames[i], FormatObj(ls[i], <<>>, <<>>)>>] :
            ls \in [1..k -> BitLengths]} : k \in 0..3}

\* raw entries of the formats document, after the default formats and
\* scaled to the windows of the model: a CSN-style format is one field and
\* no parity rule, a Wiegand-style format is a parity bit at each end around
\* the data, with an even rule on the first half of the data and an odd
\* rule on the second
RawField(name, start, end) == [name |-> name, start |-> start, end |-> end]

RawParityField(name, start, end) ==
  [name |-> name, start |-> start, end |-> end, role |-> "parity"]

RawRule(typ, start, end) ==
  [type |-> typ, ranges |-> <<[start |-> start, end |-> end]>>]

CsnFormat(L) ==
  [name |-> "CSN - " \o ToString(L) \o "-bit",
   bit_length |-> L,
   fields |-> <<RawField("CSN", 0, L - 1)>>,
   parity |-> <<>>]

WiegandFormat(L) ==
  [name |-> "H - " \o ToString(L) \o "-bit",
   bit_length |-> L,
   fields |-> <<RawParityField("Parity L", 0, 0),
                RawField("Card", 1, L - 2),
                RawParityField("Parity R", L - 1, L - 1)>>,
   parity |-> <<RawRule("even", 1, Max(1, (L - 1) \div 2)),
                RawRule("odd", Min(L - 2, ((L - 1) \div 2) + 1), L - 2)>>]

\* an entry without bit_length: _normalize_formats gives it bit_length 0
NoLengthFormat ==
  [name |-> "Raw", fields |-> <<RawField("CSN", 0, 0)>>, parity |-> <<>>]

\* an entry whose parity rules cover nothing: one rule with an empty range
\* list, one without range list
EmptyRangesFormat(L) ==
  [name |-> "Plain - " \o ToString(L) \o "-bit",
   bit_length |-> L,
   fields |-> <<RawField("Card", 0, L - 1)>>,
   parity |-> <<[type |-> "even", ranges |-> <<>>], [type |-> "odd"]>>]

\* a malformed entry: its field and its parity range reach beyond bit_length
OversizedFormat(L) ==
  [name |-> "Wide - " \o ToString(L) \o "-bit",
   bit_length |-> L,
   fields |-> <<RawField("Card", 1, L + 1)>>,
   parity |-> <<RawRule("Odd", 0, L + 1)>>]

\* a malformed entry: a negative bit_length
NegativeLengthFormat ==
  [name |-> "Negative", bit_length |-> -1,
   fields |-> <<RawField("Card", 0, 0)>>, parity |-> <<>>]

\* raw parity rules: with no, one or two ranges, without range list,
\* without type, with an upper-case type
RawRanges ==
  {<<>>, <<[start |-> 0, end |-> 1]>>,
   <<[start |-> 0, end |-> 1], [start |-> 2, end |-> 2]>>}

RawRules ==
  {[type |-> typ, ranges |-> rs] : typ \in {"even", "ODD"}, rs \in RawRanges}
    \cup {[type |-> "odd"], [ranges |-> <<[start |-> 1, end |-> 2]>>]}

RawParityLists ==
  {<<>>} \cup {<<r>> : r \in RawRules} \cup {<<r, q>> : r \in RawRules, q \in RawRules}

RawFieldLists ==
  {<<RawField("Card", 0, 1)>>,
   <<RawParityField("Parity", 0, 0), RawField("Card", 1, 2)>>}

RawNames == {"A", "B"}

\* entries of a formats document: every parity list, with and without name
RawEntries ==
  {[name |-> nm, bit_length |-> 3, fields |-> fl, parity |-> pl] :
     nm \in RawNames, fl \in RawFieldLists, pl \in RawParityLists}
    \cup {[bit_length |-> 3, fields |-> fl] : fl \in RawFieldLists}

\* entries that come with another one in a document
OtherEntries ==
  {[name |-> nm, bit_length |-> 2, fields |-> <<RawField("Card", 0, 1)>>, parity |-> pl] :
     nm \in RawNames, pl \in {<<>>, <<RawRule("odd", 0, 0)>>}}

\* formats documents of up to three entries, names repeated or not
RawDocs ==
  {[formats |-> <<>>], [version |-> 1]}
    \cup {[formats |-> <<f>>] : f \in RawEntries}
    \cup {[formats |-> <<f, g>>] : f \in RawEntries, g \in OtherEntries}
    \cup {[formats |-> <<g, f>>] : f \in RawEntries, g \in OtherEntries}
    \cup {[formats |-> <<f, g, h>>] :
            f \in OtherEntries, g \in OtherEntries, h \in OtherEntries}

\* formats documents handed to merge_formats: a base of up to three entries
\* named A or B, two entries of a name being possible, and an incoming
\* document of up to two entries named A or C
MergeEntry(name, L) == [name |-> name, bit_length |-> L, fields |-> <<>>, parity |-> <<>>]

MergeBases ==
  LET E == {MergeEntry(n, L) : n \in {"A", "B"}, L \in {1}} \cup {MergeEntry("A", 2)}
  IN {[formats |-> <<>>]}
       \cup {[formats |-> <<e>>] : e \in E}
       \cup {[formats |-> <<e, f>>] : e \in E, f \in E}
       \cup {[formats |-> <<e, f, g>>] : e \in E, f \in E, g \in E}

MergeIncoming ==
  LET E == {MergeEntry(n, L) : n \in {"A", "C"}, L \in {3, 4}}
  IN {[formats |-> <<>>]}
       \cup {[formats |-> <<e>>] : e \in E}
       \cup {[formats |-> <<e, f>>] : e \in E, f \in E}

FormatPool ==
  {CsnFormat(MaxBits - 2)}
    \cup {WiegandFormat(L) : L \in (MaxBits - 1)..MaxBits}
    \cup {NoLengthFormat, NegativeLengthFormat,
          EmptyRangesFormat(MaxBits - 1), OversizedFormat(MaxBits - 1)}

\* formats documents of up to two formats of the pool, in either order
Docs ==
  {[formats |-> <<>>]}
    \cup {[formats |-> <<f>>] : f \in FormatPool}
    \cup {[formats |-> <<p[1], p[2]>>] :
            p \in {q \in FormatPool \X FormatPool : q[1] /= q[2]}}

\* the texts typed into the entry: the bit strings with at most one set bit,
\* at either end, a hex digit, a text with separators, and two invalid texts
EntryTexts ==
  {b \in BitStrings :
     /\ \A i \in 2..(Len(b) - 1) : b[i] = "0"
     /\ Len(b) > 1 => (b[1] = "0" \/ b[Len(b)] = "0")}
    \cup {<<"0", "x", "8">>, <<" ", "1", "-", "0">>, <<>>, <<"0", "x", "G", "1">>}

(***************************************************************************)
(* The module-level functions: the initial state holds a pending call of   *)
(* one of them with arguments of the bounded sets, the action applies it.  *)
(***************************************************************************)
Pending(op, args) == [op |-> op, args |-> args, done |-> FALSE, ret |-> <<>>]

Return(ret) == [call EXCEPT !.done = TRUE, !.ret = ret]

Called(op) == call.op = op /\ call.done

\* App.__init__: the widgets' variables and the decode state
InitWidgets ==
  /\ show_fails = FALSE
  /\ slice_mode = "left"
  /\ last_rows_for_csv = <<>>
  /\ last_binary_used = <<>>
  /\ last_format_checks = <<>>
  /\ txt = <<>>
  /\ tree = <<>>
  /\ canvas = <<>>
  /\ messagebox = None
  /\ rendered = <<>>
  /\ ops = 0

InitCalls ==
  \/ \E s \in InputStrings :
       call = Pending("process_input", [input_string |-> s])
  \/ \E b \in BitStrings, f \in FieldDicts :
       call = Pending("extract_fields",
                      [binary_string |-> b, fmt_obj |-> FormatObj(Len(b), f, <<>>)])
  \/ \E b \in BitStrings, c \in CoverageLists :
       call = Pending("verify_parity",
                      [binary_string |-> b, fmt_obj |-> FormatObj(Len(b), <<>>, c)])
  \/ \E b \in BitStrings, c \in CoverageLists :
       call = Pending("_parity_all_ok",
                      [binary_string |-> b, fmt |-> FormatObj(Len(b), <<>>, c)])
  \/ \E b \in BitStrings, c \in Catalogs :
       call = Pending("_detect_formats", [binary_string |-> b, FORMATS |-> c])
  \/ \E doc \in RawDocs :
       call = Pending("_normalize_formats", [doc |-> doc])
  \/ \E base \in MergeBases, incoming \in MergeIncoming :
       call = Pending("merge_formats", [base |-> base, incoming |-> incoming])

InitFn ==
  /\ InitCalls
  /\ formats_doc = [formats |-> <<>>]
  /\ FORMATS = <<>>
  /\ disk = [file |-> None, bak |-> None]
  /\ InitWidgets

CallProcessInput ==
  /\ call.op = "process_input" /\ ~call.done
  /\ call' = Return(process_input(call.args.input_string))
  /\ UNCHANGED appVars

CallExtractFields ==
  /\ call.op = "extract_fields" /\ ~call.done
  /\ call' = Return(extract_fields(call.args.binary_string, call.args.fmt_obj))
  /\ UNCHANGED appVars

CallVerifyParity ==
  /\ call.op = "verify_parity" /\ ~call.done
  /\ call' = Return(verify_parity(call.args.binary_string, call.args.fmt_obj))
  /\ UNCHANGED appVars

CallParityAllOk ==
  /\ call.op = "_parity_all_ok" /\ ~call.done
  /\ call' = Return(_parity_all_ok(call.args.binary_string, call.args.fmt))
  /\ UNCHANGED appVars

CallDetectFormats ==
  /\ call.op = "_detect_formats" /\ ~call.done
  /\ call' = Return(_detect_formats(call.args.FORMATS, call.args.binary_string))
  /\ UNCHANGED appVars

CallNormalizeFormats ==
  /\ call.op = "_normalize_formats" /\ ~call.done
  /\ call' = Return(_normalize_formats(call.args.doc))
  /\ UNCHANGED appVars

CallMergeFormats ==
  /\ call.op = "merge_formats" /\ ~call.done
  /\ call' = Return(merge_formats(call.args.base, call.args.incoming))
  /\ UNCHANGED appVars

NextFn ==
  \/ CallProcessInput
  \/ CallExtractFields
  \/ CallVerifyParity
  \/ CallParityAllOk
  \/ CallDetectFormats
  \/ CallNormalizeFormats
  \/ CallMergeFormats

SpecFn == InitFn /\ [][NextFn]_vars

(***************************************************************************)
(* The application: the formats document is what load_formats read, the    *)
(* catalog its normalization; the user types a text and presses Calculate, *)
(* ticks the check box, picks a slicing mode.                              *)
(***************************************************************************)
NoCall == [op |-> "none", args |-> <<>>, done |-> TRUE, ret |-> <<>>]

Init ==
  /\ call = NoCall
  /\ formats_doc \in Docs
  /\ FORMATS = _normalize_formats(formats_doc)
  /\ disk = [file |-> Some(formats_doc), bak |-> None]
  /\ InitWidgets

\* on_calculate dropping from the catalog the formats that did not match
CalculateOn_pruning(input_data) ==
  \E after \in {on_calculate(input_data)} :
    /\ messagebox' = after.messagebox
    /\ last_binary_used' = after.last_binary_used
    /\ txt' = after.txt
    /\ tree' = after.tree
    /\ last_rows_for_csv' = after.last_rows_for_csv
    /\ last_format_checks' = after.last_format_checks
    /\ rendered' = after.rendered
    /\ canvas' = after.canvas
    /\ FORMATS' = SelectSeq(FORMATS,
                            LAMBDA kv : kv[2].bit_length <= Len(after.last_binary_used))
    /\ UNCHANGED <<call, formats_doc, show_fails, slice_mode, disk, ops>>

\* App.on_calculate with input_data in the entry
CalculateOn(input_data) ==
  \E after \in {on_calculate(input_data)} :
    /\ messagebox' = after.messagebox
    /\ last_binary_used' = after.last_binary_used
    /\ txt' = after.txt
    /\ tree' = after.tree
    /\ last_rows_for_csv' = after.last_rows_for_csv
    /\ last_format_checks' = after.last_format_checks
    /\ rendered' = after.rendered
    /\ canvas' = after.canvas
    /\ UNCHANGED <<call, formats_doc, FORMATS, show_fails, slice_mode, disk, ops>>

Calculate == \E input_data \in EntryTexts : CalculateOn(input_data)

ToggleShowFails ==
  /\ show_fails' = ~show_fails
  /\ UNCHANGED <<call, formats_doc, FORMATS, slice_mode, last_binary_used,
                 last_rows_for_csv, last_format_checks, txt, tree, canvas,
                 messagebox, rendered, disk, ops>>

SelectSliceMode ==
  \E mode \in {"left", "right"} :
    /\ mode /= slice_mode
    /\ slice_mode' = mode
    /\ UNCHANGED <<call, formats_doc, FORMATS, show_fails, last_binary_used,
                   last_rows_for_csv, last_format_checks, txt, tree, canvas,
                   messagebox, rendered, disk, ops>>

Next ==
  \/ Calculate
  \/ ToggleShowFails
  \/ SelectSliceMode

Spec == Init /\ [][Next]_vars

(***************************************************************************)
(* Format management: the Manage Formats dialog, the format editor and the *)
(* import of a formats file.  A handler that ends with an exception leaves *)
(* what it had done until then.                                            *)
(***************************************************************************)
MaxFormats == 2   \* most entries of the formats document
MaxOps == 3       \* most format-management operations in a session

\* save_formats keeping the first backup: the file is moved only when there
\* is no backup yet
save_formats_keep_first_backup(d, doc) ==
  [file |-> Some(doc), bak |-> IF d.bak /= None THEN d.bak ELSE d.file]

\* save_formats(doc): the file that exists becomes the backup, the document
\* is written
save_formats(d, doc) ==
  [file |-> Some(doc), bak |-> IF d.file /= None THEN d.file ELSE d.bak]

\* int(...) of every start and end of the document succeeds and every field
\* has its name: _normalize_formats ends without exception
NormalizableEntry(f) ==
  /\ \A i \in 1..Len(rec_get(f, "fields", <<>>)) :
       {"name", "start", "end"} \subseteq DOMAIN f.fields[i]
  /\ \A i \in 1..Len(rec_get(f, "parity", <<>>)) :
       \A j \in 1..Len(rec_get(f.parity[i], "ranges", <<>>)) :
         {"start", "end"} \subseteq DOMAIN f.parity[i].ranges[j]

Normalizable(doc) ==
  \A i \in 1..Len(rec_get(doc, "formats", <<>>)) : NormalizableEntry(doc.formats[i])

\* self.FORMATS = self._normalize_formats(doc), or the exception that leaves
\* self.FORMATS as it was
renormalized(doc) == IF Normalizable(doc) THEN _normalize_formats(doc) ELSE FORMATS

\* next(f for f in formats if f.get("name") == name, None)
first_named(formats, name) ==
  LET at == {i \in 1..Len(formats) : formats[i].name = name} IN
  IF at = {} THEN None ELSE Some(formats[CHOOSE i \in at : \A j \in at : i <= j])

\* str(v) and int(text) on the bit lengths of the model
IntTexts == (-1)..(MaxBits + 2)

str(v) == IF v = None THEN "None" ELSE ToString(v[1])

int(text) ==
  IF \E n \in IntTexts : ToString(n) = text
    THEN Some(CHOOSE n \in IntTexts : ToString(n) = text)
    ELSE None

\* str.strip() on the names of the model
strip(s) ==
  CASE s = " A " -> "A"
    [] s = "  " -> ""
    [] OTHER -> s

get(r, key) == IF key \in DOMAIN r THEN Some(r[key]) ELSE None

\* the rows _edit_format puts in the two tables of the editor for fmt
field_rows(fields) ==
  [i \in 1..Len(fields) |->
     <<rec_get(fields[i], "name", "None"), get(fields[i], "start"), get(fields[i], "end")>>]

RECURSIVE parity_rows(_)
parity_rows(parity) ==
  IF parity = <<>> THEN <<>>
  ELSE LET typ == lower(rec_get(Head(parity), "type", "even"))
           ranges == rec_get(Head(parity), "ranges", <<>>)
       IN [j \in 1..Len(ranges) |-> <<typ, get(ranges[j], "start"), get(ranges[j], "end")>>]
            \o parity_rows(Tail(parity))

\* the editor as _edit_format opens it on fmt
editor_of(fmt) ==
  [name_var |-> fmt.name,
   bitlen_var |-> str(get(fmt, "bit_length")),
   fields_tree |-> field_rows(rec_get(fmt, "fields", <<>>)),
   parity_tree |-> parity_rows(rec_get(fmt, "parity", <<>>))]

\* int(s), int(e) succeed on every row
rows_are_integers(rows) ==
  \A i \in 1..Len(rows) : rows[i][2] /= None /\ rows[i][3] /= None

new_fields(rows) ==
  [i \in 1..Len(rows) |->
     [name |-> rows[i][1], start |-> rows[i][2][1], end |-> rows[i][3][1]]]

\* parity_rules.setdefault(typ, []).append({"start": .., "end": ..})
RECURSIVE group_parity(_, _)
group_parity(rows, parity_rules) ==
  IF rows = <<>> THEN parity_rules
  ELSE LET typ == Head(rows)[1]
           r == [start |-> Head(rows)[2][1], end |-> Head(rows)[3][1]]
       IN group_parity(Tail(rows),
            dict_set(parity_rules, typ,
                     IF dict_has(parity_rules, typ)
                       THEN Append(dict_at(parity_rules, typ), r)
                       ELSE <<r>>))

new_parity(rows) ==
  LET parity_rules == group_parity(rows, <<>>) IN
  [i \in 1..Len(parity_rules) |->
     [type |-> parity_rules[i][1], ranges |-> parity_rules[i][2]]]

\* new_fmt of _save_format, the bit length and the rows being integers
new_fmt_of(form) ==
  [name |-> IF strip(form.name_var) = "" THEN "Untitled" ELSE strip(form.name_var),
   bit_length |-> int(form.bitlen_var)[1],
   fields |-> new_fields(form.fields_tree),
   parity |-> new_parity(form.parity_tree)]

\* the first entry of the name of fmt becomes new_fmt
replace_first_named(formats, name, new_fmt) ==
  LET at == {i \in 1..Len(formats) : formats[i].name = name} IN
  IF at = {} THEN formats
  ELSE [formats EXCEPT ![CHOOSE i \in at : \A j \in at : i <= j] = new_fmt]

\* the formats document _save_format leaves: fmt is None for Add
saved_doc(doc, fmt, new_fmt) ==
  [doc EXCEPT !.formats =
     IF fmt /= None THEN replace_first_named(@, fmt[1].name, new_fmt)
     ELSE Append(@, new_fmt)]

\* what the user may have in the editor when pressing Save: for Add, a
\* format without name and with three parity rows of two types, and a form
\* whose bit length is no integer; for Edit, the format as opened, and the
\* format renamed and with bit length 0
AddForms ==
  {[name_var |-> "  ", bitlen_var |-> ToString(MaxBits - 1),
    fields_tree |-> <<<<"Card", Some(0), Some(1)>>>>,
    parity_tree |-> <<<<"odd", Some(1), Some(2)>>, <<"even", Some(0), Some(1)>>,
                      <<"odd", Some(0), Some(2)>>>>],
   [name_var |-> "B", bitlen_var |-> "", fields_tree |-> <<>>, parity_tree |-> <<>>]}

EditForms(fmt) ==
  {editor_of(fmt),
   [editor_of(fmt) EXCEPT !.name_var = " A ", !.bitlen_var = "0"]}

NamesIn(doc) == {doc.formats[i].name : i \in 1..Len(doc.formats)}

decodeVars == <<call, show_fails, slice_mode, last_binary_used, last_rows_for_csv,
                last_format_checks, txt, tree, canvas, rendered>>

\* the end of the handlers that change the document: save_formats, then the
\* catalog normalized anew
Commit(doc) ==
  /\ ops < MaxOps
  /\ ops' = ops + 1
  /\ formats_doc' = doc
  /\ disk' = save_formats(disk, doc)
  /\ FORMATS' = renormalized(doc)

\* App._save_format, from the editor opened by Add (fmt None) or by Edit
SaveFormatFrom(fmt, form) ==
  IF int(form.bitlen_var) = None THEN
    /\ messagebox' = Some([kind |-> "error", title |-> "Format",
                           text |-> "Bit Length must be an integer"])
    /\ UNCHANGED <<formats_doc, FORMATS, disk, ops>>
  ELSE IF ~(rows_are_integers(form.fields_tree) /\ rows_are_integers(form.parity_tree)) THEN
    UNCHANGED <<formats_doc, FORMATS, disk, ops, messagebox>>
  ELSE
    /\ Commit(saved_doc(formats_doc, fmt, new_fmt_of(form)))
    /\ UNCHANGED messagebox

SaveFormat ==
  /\ \/ /\ Len(formats_doc.formats) < MaxFormats
        /\ \E form \in AddForms : SaveFormatFrom(None, form)
     \/ \E name \in NamesIn(formats_doc) :
          \E fmt \in {first_named(formats_doc.formats, name)} :
            \E form \in EditForms(fmt[1]) : SaveFormatFrom(fmt, form)
  /\ UNCHANGED decodeVars

\* App._delete_selected_format, the question answered with yes
DeleteSelectedFormat ==
  /\ \E name \in NamesIn(formats_doc) :
       Commit([formats_doc EXCEPT
                 !.formats = SelectSeq(@, LAMBDA f : f.name /= name)])
  /\ UNCHANGED messagebox
  /\ UNCHANGED decodeVars

\* App._clone_selected_format
CloneSelectedFormat ==
  /\ Len(formats_doc.formats) < MaxFormats
  /\ \E name \in NamesIn(formats_doc) :
       \E src \in {first_named(formats_doc.formats, name)} :
         Commit([formats_doc EXCEPT
                   !.formats = Append(@, [src[1] EXCEPT !.name = @ \o " (Copy)"])])
  /\ UNCHANGED messagebox
  /\ UNCHANGED decodeVars

\* an entry that _normalize_formats cannot read: its field has no end
BrokenFormat ==
  [name |-> "Broken", bit_length |-> MaxBits - 1,
   fields |-> <<[name |-> "Card", start |-> 0]>>, parity |-> <<>>]

\* what json.load gives for the file chosen in menu_import: None stands for a
\* file that cannot be read or parsed
ImportFiles ==
  {None,
   Some([formats |-> <<CsnFormat(MaxBits - 1)>>]),
   Some([formats |-> <<[CsnFormat(MaxBits - 2) EXCEPT !.bit_length = MaxBits]>>]),
   Some([formats |-> <<BrokenFormat>>])}

\* App.menu_import, a file having been chosen
MenuImport ==
  /\ \E incoming \in ImportFiles :
       IF incoming = None THEN
         /\ messagebox' = Some([kind |-> "error", title |-> "Import failed"])
         /\ UNCHANGED <<formats_doc, FORMATS, disk, ops>>
       ELSE
         \E merged \in {merge_formats(formats_doc, incoming[1])} :
           /\ Len(merged.formats) <= MaxFormats
           /\ Commit(merged)
           /\ messagebox' =
                IF Normalizable(merged)
                  THEN Some([kind |-> "info", title |-> "Imported"])
                  ELSE Some([kind |-> "error", title |-> "Import failed"])
  /\ UNCHANGED decodeVars

\* the texts decoded between the format-management operations: a window as
\* long as the longer default format, and an invalid text
SessionTexts ==
  {[i \in 1..(MaxBits - 1) |-> IF i = 1 THEN "1" ELSE "0"], <<"0", "x", "G", "1">>}

\* App.on_calculate between the format-management operations
Decode == \E input_data \in SessionTexts : CalculateOn(input_data)

\* the document load_formats gives when there is no formats file
DefaultDoc == [formats |-> <<CsnFormat(MaxBits - 2), WiegandFormat(MaxBits - 1)>>]

InitFormats ==
  /\ call = NoCall
  /\ \/ formats_doc = DefaultDoc /\ disk = [file |-> None, bak |-> None]
     \/ /\ formats_doc \in {[formats |-> <<>>], [formats |-> <<WiegandFormat(MaxBits)>>]}
        /\ disk = [file |-> Some(formats_doc), bak |-> None]
  /\ FORMATS = _normalize_formats(formats_doc)
  /\ InitWidgets

NextFormats ==
  \/ SaveFormat
  \/ DeleteSelectedFormat
  \/ CloneSelectedFormat
  \/ MenuImport
  \/ Decode

SpecFormats == InitFormats /\ [][NextFormats]_vars

(***************************************************************************)
(* Properties of process_input.                                            *)
(***************************************************************************)
InputOf == call.args.input_string

AllIn(s, chars) == \A i \in 1..Len(s) : s[i] \in chars

\* the four bits of a hex digit, most significant first
Nibble(c) ==
  LET v == hex_digit_value(c) IN
  [k \in 1..4 |-> IF (v \div (2 ^ (4 - k))) % 2 = 1 THEN "1" ELSE "0"]

\* the number a string of '0'/'1' denotes, by the weight of each position
BitsValue(b) ==
  LET Weighted[i \in 0..Len(b)] ==
        IF i = 0 THEN 0
        ELSE Weighted[i - 1] + (IF b[i] = "1" THEN 2 ^ (Len(b) - i) ELSE 0)
  IN Weighted[Len(b)]

\* the number a string of hex digits denotes, by the weight of each position
HexValue(h) ==
  LET Weighted[i \in 0..Len(h)] ==
        IF i = 0 THEN 0
        ELSE Weighted[i - 1] + hex_digit_value(h[i]) * (16 ^ (Len(h) - i))
  IN Weighted[Len(h)]

InvalidInput == [bits |-> None, err |-> Some(ERR_INVALID_INPUT)]

\* C6: a cleaned input that is non-empty, all hex digits and not all 0/1
\* gives, with no error, 4 bits per hex digit, the i-th group of 4 bits being
\* the value of the i-th digit (leading zero nibbles kept, either case).
C6_HexFourBitsPerDigit ==
  Called("process_input") =>
    LET s == cleaned(InputOf) IN
    (s /= <<>> /\ AllIn(s, HEX_CHARS) /\ ~AllIn(s, {"0", "1"})) =>
      /\ call.ret.err = None
      /\ call.ret.bits /= None
      /\ Len(call.ret.bits[1]) = 4 * Len(s)
      /\ \A i \in 1..Len(s) :
           SubSeq(call.ret.bits[1], 4 * i - 3, 4 * i) = Nibble(s[i])

C6_Witness ==
  /\ Called("process_input")
  /\ InputOf = <<"0", "a", "F">>
  /\ call.ret.bits = Some(<<"0","0","0","0", "1","0","1","0", "1","1","1","1">>)

\* C7: for every non-empty string H of hex digits, "0x"+H gives 4*len(H)
\* bits whose binary value is the hexadecimal value of H.
C7_PrefixedHexRoundTrip ==
  Called("process_input") =>
    \A H \in StringsUpTo(Alphabet \cap HEX_CHARS, MaxLen) :
      (H /= <<>> /\ InputOf = <<"0", "x">> \o H) =>
        /\ call.ret.bits /= None
        /\ Len(call.ret.bits[1]) = 4 * Len(H)
        /\ BitsValue(call.ret.bits[1]) = HexValue(H)

\* C8 as stated: every string of only '0'/'1', the empty one included, comes
\* back unchanged with no error.
C8_EveryBinaryUnchanged ==
  (Called("process_input") /\ AllIn(InputOf, {"0", "1"})) =>
    call.ret = [bits |-> Some(InputOf), err |-> None]

\* C8 amended: every non-empty string of only '0'/'1' comes back unchanged
\* with no error (never converted as hex); the empty string is InvalidInput.
C8_NonEmptyBinaryUnchanged ==
  (Called("process_input") /\ AllIn(InputOf, {"0", "1"})) =>
    IF InputOf = <<>> THEN call.ret = InvalidInput
    ELSE call.ret = [bits |-> Some(InputOf), err |-> None]

C8_Witness ==
  /\ Called("process_input")
  /\ InputOf = <<"1", "0", "1">>
  /\ call.ret.bits = Some(<<"1", "0", "1">>)

\* C9 as stated: "", "0xG1" and "12a" each give InvalidInput.
C9_ThreeInvalidInputs ==
  (Called("process_input")
     /\ InputOf \in {<<>>, <<"0", "x", "G", "1">>, <<"1", "2", "a">>}) =>
    call.ret = InvalidInput

\* C9 amended: "" and "0xG1" give InvalidInput; "12a" is three hex digits
\* and gives the 12 bits 000100101010 with no error.
C9_InvalidAndHexInputs ==
  Called("process_input") =>
    /\ InputOf \in {<<>>, <<"0", "x", "G", "1">>} => call.ret = InvalidInput
    /\ InputOf = <<"1", "2", "a">> =>
         call.ret = [bits |-> Some(<<"0","0","0","1", "0","0","1","0",
                                     "1","0","1","0">>),
                     err |-> None]

C9_Witness ==
  /\ Called("process_input")
  /\ InputOf = <<"0", "x", "G", "1">>
  /\ call.ret.bits = None /\ call.ret.err /= None

\* C10: an input that is empty after cleaning, or that still holds a
\* character that is not a hex digit, gives InvalidInput; the result is
\* either a non-empty bit string and no error, or no bit string and an error.
C10_InvalidOrBits ==
  Called("process_input") =>
    /\ (cleaned(InputOf) = <<>> \/ ~AllIn(cleaned(InputOf), HEX_CHARS)) =>
         call.ret = InvalidInput
    /\ InputOf \in {<<>>, <<" ">>, <<"\t", " ">>, <<"-", "_">>,
                    <<"0", "x">>, <<"0", "X">>, <<" ", "0", "x", " ">>} =>
         call.ret = InvalidInput
    /\ \/ /\ call.ret.bits /= None /\ call.ret.err = None
          /\ call.ret.bits[1] /= <<>>
          /\ AllIn(call.ret.bits[1], {"0", "1"})
       \/ call.ret.bits = None /\ call.ret.err /= None

C10_Witness ==
  /\ Called("process_input")
  /\ InputOf = <<" ", "0", "X">>
  /\ call.ret = InvalidInput

\* the inputs that differ from s by one more whitespace character around it
Surrounded(s) ==
  {<<w>> \o s : w \in Whitespace} \cup {s \o <<w>> : w \in Whitespace}

InsertAt(s, p, c) == SubSeq(s, 1, p) \o <<c>> \o SubSeq(s, p + 1, Len(s))

Separators == {" ", "-", "_"}

\* the number of whitespace characters s.strip() removes at each end
LeadingSpace(s) == Len(s) - Len(lstrip(s))

TrailingSpace(s) == Len(s) - Len(rstrip(s))

\* s, trimmed and without separators, starts with a 0x/0X prefix
HasPrefix(s) ==
  LET body == replace_char(replace_char(replace_char(clean_input(s), " "), "-"), "_")
  IN startswith(body, <<"0", "x">>) \/ startswith(body, <<"0", "X">>)

\* the inputs that differ from s by a 0x/0X prefix leading the trimmed text
Prefixed(s) ==
  IF HasPrefix(s) THEN {}
  ELSE {SubSeq(s, 1, LeadingSpace(s)) \o pre \o lstrip(s) :
          pre \in {<<"0", "x">>, <<"0", "X">>}}

\* the inputs that differ from s by one separator inserted anywhere
SeparatorInserted(s) ==
  {InsertAt(s, p, c) : p \in 0..Len(s), c \in Separators}

\* the inputs that differ from s by one space inserted anywhere or one
\* hyphen or underscore inserted inside the trimmed text
SeparatorInsertedInside(s) ==
  {InsertAt(s, p, " ") : p \in 0..Len(s)}
    \cup {InsertAt(s, p, c) :
            p \in LeadingSpace(s)..(Len(s) - TrailingSpace(s)), c \in {"-", "_"}}

\* C11: process_input is insensitive to surrounding whitespace, to spaces,
\* hyphens and underscores inserted anywhere in the input and to one
\* optional leading 0x/0X prefix: an input and the input with one more of
\* these give the same bit string or both give InvalidInput (and so do any
\* two inputs that differ only in these, step by step).
C11_InsensitiveAnywhere ==
  Called("process_input") =>
    \A t \in Surrounded(InputOf) \cup SeparatorInserted(InputOf) \cup Prefixed(InputOf) :
      process_input(t) = call.ret

\* C11, amended: the same with the hyphens and underscores inserted inside
\* the trimmed text only (spaces anywhere).
C11_InsensitiveInsideTrimmed ==
  Called("process_input") =>
    \A t \in Surrounded(InputOf) \cup SeparatorInsertedInside(InputOf)
               \cup Prefixed(InputOf) :
      process_input(t) = call.ret

\* F_a gives 11111010, and so does it prefixed, separated and surrounded
C11_Witness ==
  /\ Called("process_input")
  /\ InputOf = <<"F", "_", "a">>
  /\ call.ret.bits = Some(<<"1", "1", "1", "1", "1", "0", "1", "0">>)
  /\ <<"0", "X", "F", "_", "a">> \in Prefixed(InputOf)
  /\ <<"F", "_", "-", "a">> \in SeparatorInsertedInside(InputOf)
  /\ process_input(<<"\t", "0", "X", "F", "_", "-", "a", " ">>) = call.ret

\* C27: process_input is idempotent: for every input on which it succeeds
\* with the bit string b, process_input(b) succeeds and returns b again.
C27_ProcessInputIdempotent ==
  (Called("process_input") /\ call.ret.bits /= None) =>
    process_input(call.ret.bits[1]) = [bits |-> call.ret.bits, err |-> None]

\* a prefixed hex input with separators: the bit string it gives differs
\* from the input and comes back unchanged
C27_Witness ==
  /\ Called("process_input")
  /\ InputOf = <<"0", "x", "a", "-">>
  /\ call.ret.bits = Some(<<"1", "0", "1", "0">>)
  /\ process_input(call.ret.bits[1]).bits = call.ret.bits

(***************************************************************************)
(* Properties of the decoding core.                                        *)
(***************************************************************************)
InSeq(x, q) == \E i \in 1..Len(q) : q[i] = x

\* the number of '1' bits at the 0-based positions s..e of a window
OnesIn(bits, s, e) == Cardinality({i \in s..e : bits[i + 1] = "1"})

InsideWindow(bits, s, e) == 0 <= s /\ s <= e /\ e < Len(bits)

\* C1: _parity_all_ok is true whenever verify_parity gives no check, or
\* every check whose ok is known (not None) is a pass; a check whose ok is
\* None never makes the verdict false.  (Stated of the formats whose parity
\* ranges all lie inside the window.)
C1_IndeterminateNeverBlocks ==
  Called("_parity_all_ok") =>
    LET bits == call.args.binary_string
        pv == verify_parity(bits, call.args.fmt)
    IN (/\ \A i \in 1..Len(pv) :
              InsideWindow(bits, pv[i].coverage[1], pv[i].coverage[2])
        /\ \/ pv = <<>>
           \/ \A i \in 1..Len(pv) : pv[i].ok /= None => pv[i].ok = Some(TRUE))
         => call.ret = TRUE

\* C2: for every rule and every covered range [s,e] inside the window,
\* verify_parity reports expected = (ones in window[s..e]) mod 2 for an even
\* rule and 1 minus that for an odd rule, so that the data bits plus the
\* expected bit hold an even, respectively odd, number of ones.
C2_ExpectedParityBit ==
  Called("verify_parity") =>
    LET bits == call.args.binary_string
        cov == call.args.fmt_obj.parity_coverage
        pv == call.ret
    IN /\ \A i \in 1..Len(cov) : \A j \in 1..Len(cov[i].ranges) :
            \E k \in 1..Len(pv) :
              pv[k].type = cov[i].type /\ pv[k].coverage = cov[i].ranges[j]
       /\ \A k \in 1..Len(pv) :
            LET s == pv[k].coverage[1]
                e == pv[k].coverage[2]
            IN InsideWindow(bits, s, e) =>
                 /\ pv[k].type = "even" =>
                      /\ pv[k].expected = OnesIn(bits, s, e) % 2
                      /\ (OnesIn(bits, s, e) + pv[k].expected) % 2 = 0
                 /\ pv[k].type = "odd" =>
                      /\ pv[k].expected = 1 - (OnesIn(bits, s, e) % 2)
                      /\ (OnesIn(bits, s, e) + pv[k].expected) % 2 = 1

\* one set bit in the data: the even rule expects 1, the odd rule expects 0
C2_Witness ==
  /\ Called("verify_parity")
  /\ call.args.binary_string = <<"1", "0", "0", "0">>
  /\ call.args.fmt_obj.parity_coverage =
       <<Rule("even", <<<<0, 3>>>>), Rule("odd", <<<<0, 0>>>>)>>
  /\ Len(call.ret) = 2
  /\ call.ret[1].expected = 1
  /\ call.ret[2].expected = 0

\* C3: _detect_formats puts a format in exact iff its bit_length = n, in
\* compatible iff its bit_length < n and in neither iff its bit_length > n;
\* the lists are disjoint and each keeps the catalog's iteration order.
C3_DetectPartition ==
  Called("_detect_formats") =>
    LET n == Len(call.args.binary_string)
        cat == call.args.FORMATS
        exact == call.ret.exact
        compatible == call.ret.compatible
        PosIn(x) == CHOOSE i \in 1..Len(cat) : cat[i] = x
        InOrder(q) ==
          \A i, j \in 1..Len(q) : i < j => PosIn(q[i]) < PosIn(q[j])
    IN /\ \A k \in 1..Len(cat) :
            LET L == cat[k][2].bit_length IN
            /\ InSeq(cat[k], exact) <=> L = n
            /\ InSeq(cat[k], compatible) <=> L < n
            /\ (~InSeq(cat[k], exact) /\ ~InSeq(cat[k], compatible)) <=> L > n
       /\ \A i \in 1..Len(exact) : InSeq(exact[i], cat)
       /\ \A i \in 1..Len(compatible) : InSeq(compatible[i], cat)
       /\ \A i \in 1..Len(exact) : ~InSeq(exact[i], compatible)
       /\ InOrder(exact)
       /\ InOrder(compatible)

\* an exact match between two compatible ones, and a format that is too long
C3_Witness ==
  /\ Called("_detect_formats")
  /\ Len(call.args.binary_string) = 3
  /\ Len(call.args.FORMATS) = 3
  /\ call.args.FORMATS[1][2].bit_length = 2
  /\ call.args.FORMATS[2][2].bit_length = 3
  /\ call.args.FORMATS[3][2].bit_length = 1
  /\ call.ret.exact = <<call.args.FORMATS[2]>>
  /\ call.ret.compatible = <<call.args.FORMATS[1], call.args.FORMATS[3]>>

\* what C4 says of one field of the format, given the entry extract_fields
\* returned for it
FieldIsSubstring(bits, start, end, m) ==
  /\ Len(m.bits) = end - start + 1
  /\ \A i \in 1..Len(m.bits) : m.bits[i] = bits[start + i]
  /\ m.int = BitsValue(m.bits)
  /\ m.len = end - start + 1
  /\ m.range = <<start, end>>

\* C4: for every window and every field [start,end], extract_fields returns
\* the substring window[start..end] of length end-start+1, its value as an
\* unsigned binary integer (0 for an empty substring), and reports the
\* length end-start+1 and the range (start,end).  (Stated of the fields
\* with 0 <= start <= end, whatever the window's length.)
C4_FieldSubstring ==
  Called("extract_fields") =>
    LET bits == call.args.binary_string
        fields == call.args.fmt_obj.fields
    IN \A k \in 1..Len(fields) :
         LET start == fields[k][2][1]
             end == fields[k][2][2]
         IN (0 <= start /\ start <= end) =>
              /\ dict_has(call.ret, fields[k][1])
              /\ FieldIsSubstring(bits, start, end, dict_at(call.ret, fields[k][1]))

\* C4 holds of the fields whose range lies inside the window (an empty range
\* [start, start-1] included).
C4_FieldSubstringInsideWindow ==
  Called("extract_fields") =>
    LET bits == call.args.binary_string
        fields == call.args.fmt_obj.fields
    IN \A k \in 1..Len(fields) :
         LET start == fields[k][2][1]
             end == fields[k][2][2]
         IN (0 <= start /\ start <= end + 1 /\ end < Len(bits)) =>
              /\ dict_has(call.ret, fields[k][1])
              /\ FieldIsSubstring(bits, start, end, dict_at(call.ret, fields[k][1]))

OutOfRange(bits, start, end) == end >= Len(bits) \/ start < 0

\* C12: field extraction and parity evaluation fail with a FieldOutOfRange
\* error whenever a field or parity range has end >= len(bits) or start < 0:
\* such a range is never clamped to a shorter substring and never yields a
\* decoded value, so neither result holds an entry for it.
C12_OutOfRangeFails ==
  /\ Called("extract_fields") =>
       LET bits == call.args.binary_string
           fields == call.args.fmt_obj.fields
       IN \A k \in 1..Len(fields) :
            OutOfRange(bits, fields[k][2][1], fields[k][2][2]) =>
              ~dict_has(call.ret, fields[k][1])
  /\ Called("verify_parity") =>
       \A i \in 1..Len(call.ret) :
         ~OutOfRange(call.args.binary_string,
                     call.ret[i].coverage[1], call.ret[i].coverage[2])

\* the (type, range) pairs of a parity coverage list, rule by rule and
\* range by range
RECURSIVE PairsOf(_)
PairsOf(cov) ==
  IF cov = <<>> THEN <<>>
  ELSE [j \in 1..Len(Head(cov).ranges) |-> <<Head(cov).type, Head(cov).ranges[j]>>]
         \o PairsOf(Tail(cov))

\* C14: verify_parity gives exactly one check per (rule, covered range)
\* pair, in rule order and then range order, each with the rule's type, the
\* covered range and an expected bit, its actual and ok left None; and the
\* status shown for a check is "OK" when ok is true, "FAIL" when ok is false
\* and "(no parity bit)" when ok is None.
C14_OneCheckPerRange ==
  Called("verify_parity") =>
    LET pairs == PairsOf(call.args.fmt_obj.parity_coverage)
        pv == call.ret
    IN /\ Len(pv) = Len(pairs)
       /\ \A k \in 1..Len(pv) :
            /\ pv[k].type = pairs[k][1]
            /\ pv[k].coverage = pairs[k][2]
            /\ pv[k].expected \in {0, 1}
            /\ pv[k].actual = None
            /\ pv[k].ok = None
            /\ parity_status(pv[k]) = "(no parity bit)"
            /\ parity_status([pv[k] EXCEPT !.ok = Some(TRUE)]) = "OK"
            /\ parity_status([pv[k] EXCEPT !.ok = Some(FALSE)]) = "FAIL"

\* one odd rule over two ranges: two checks, in the order of the ranges
C14_Witness ==
  /\ Called("verify_parity")
  /\ call.args.binary_string = <<"1", "1", "0", "0">>
  /\ call.args.fmt_obj.parity_coverage = <<Rule("odd", <<<<0, 0>>, <<1, 3>>>>)>>
  /\ Len(call.ret) = 2
  /\ call.ret[1].coverage = <<0, 0>>
  /\ call.ret[2].coverage = <<1, 3>>
  /\ call.ret[2].ok = None

(***************************************************************************)
(* Properties of the catalog normalization.                                *)
(***************************************************************************)
EntriesOf(doc) == IF "formats" \in DOMAIN doc THEN doc.formats ELSE <<>>

NameOf(f) == IF "name" \in DOMAIN f THEN f.name ELSE "Format"

\* the i-th entry is the last one of its name in the document
IsLastOfName(entries, i) ==
  \A j \in (i + 1)..Len(entries) : NameOf(entries[j]) /= NameOf(entries[i])

\* the rules of a raw parity list that have at least one range
HasRanges(rule) == "ranges" \in DOMAIN rule /\ rule.ranges /= <<>>

KeptRules(f) ==
  IF "parity" \in DOMAIN f THEN SelectSeq(f.parity, HasRanges) ELSE <<>>

\* C18: normalization keeps, for every format, exactly the parity rules
\* whose range list is non-empty, in source order and with all their ranges
\* as (start, end) pairs; a rule with an empty or missing range list is
\* dropped, and a field is taken as name -> (start, end) whether or not it
\* has a role.  (Stated of the entry that stays in the catalog under its
\* name.)
C18_KeepsRulesWithRanges ==
  Called("_normalize_formats") =>
    LET entries == EntriesOf(call.args.doc) IN
    \A i \in 1..Len(entries) :
      IsLastOfName(entries, i) =>
        LET f == entries[i]
            kept == KeptRules(f)
            fmt == dict_at(call.ret, NameOf(f))
        IN /\ dict_has(call.ret, NameOf(f))
           /\ Len(fmt.parity_coverage) = Len(kept)
           /\ \A k \in 1..Len(kept) :
                /\ fmt.parity_coverage[k].type \in {"even", "odd"}
                /\ Len(fmt.parity_coverage[k].ranges) = Len(kept[k].ranges)
                /\ \A j \in 1..Len(kept[k].ranges) :
                     fmt.parity_coverage[k].ranges[j]
                       = <<kept[k].ranges[j].start, kept[k].ranges[j].end>>
           /\ Len(fmt.fields) = Len(f.fields)
           /\ \A j \in 1..Len(f.fields) :
                fmt.fields[j] = <<f.fields[j].name, <<f.fields[j].start, f.fields[j].end>>>>

\* a rule without ranges before a rule with two: one rule is kept, and the
\* field without role stands next to the parity field
C18_Witness ==
  /\ Called("_normalize_formats")
  /\ call.args.doc.formats =
       <<[name |-> "A", bit_length |-> 3,
          fields |-> <<RawParityField("Parity", 0, 0), RawField("Card", 1, 2)>>,
          parity |-> <<[type |-> "even", ranges |-> <<>>],
                       [type |-> "ODD",
                        ranges |-> <<[start |-> 0, end |-> 1],
                                     [start |-> 2, end |-> 2]>>]>>]>>
  /\ dict_at(call.ret, "A").parity_coverage = <<Rule("odd", <<<<0, 1>>, <<2, 2>>>>)>>
  /\ dict_keys(dict_at(call.ret, "A").fields) = <<"Parity", "Card">>

\* C19: when several entries of the document have the same name, the
\* catalog holds exactly one entry under that name, the normalization of
\* the last such entry; the catalog has one key per distinct name.
C19_LastDuplicateWins ==
  Called("_normalize_formats") =>
    LET entries == EntriesOf(call.args.doc)
        keys == dict_keys(call.ret)
    IN /\ {keys[k] : k \in 1..Len(keys)} = {NameOf(entries[i]) : i \in 1..Len(entries)}
       /\ \A k \in 1..Len(keys) : \A l \in 1..Len(keys) : keys[k] = keys[l] => k = l
       /\ \A i \in 1..Len(entries) :
            IsLastOfName(entries, i) =>
              dict_at(call.ret, NameOf(entries[i]))
                = dict_at(_normalize_formats([formats |-> <<entries[i]>>]),
                          NameOf(entries[i]))

\* three entries, the first and the last named A: the catalog has the keys
\* A and B, and A is the last entry
C19_Witness ==
  /\ Called("_normalize_formats")
  /\ Len(call.args.doc.formats) = 3
  /\ call.args.doc.formats[1].name = "A"
  /\ call.args.doc.formats[1].parity = <<>>
  /\ call.args.doc.formats[2].name = "B"
  /\ call.args.doc.formats[3].name = "A"
  /\ call.args.doc.formats[3].parity /= <<>>
  /\ dict_keys(call.ret) = <<"A", "B">>
  /\ dict_at(call.ret, "A").parity_coverage = <<Rule("odd", <<<<0, 0>>>>)>>

(***************************************************************************)
(* Properties of merge_formats.                                            *)
(***************************************************************************)
DocNames(formats) == {formats[i].name : i \in 1..Len(formats)}

\* the last entry of a name in a list of formats that has one
LastNamed(formats, nm) ==
  formats[CHOOSE i \in 1..Len(formats) :
            /\ formats[i].name = nm
            /\ \A j \in (i + 1)..Len(formats) : formats[j].name /= nm]

\* what C29 says of the merge of incoming into base giving merged
MergedAsStated(base, incoming, merged) ==
  LET new == SelectSeq(incoming, LAMBDA f : f.name \notin DocNames(base)) IN
  /\ Len(merged) = Len(base) + Len(new)
  /\ \A i \in 1..Len(base) :
       merged[i] = IF base[i].name \in DocNames(incoming)
                     THEN LastNamed(incoming, base[i].name)
                     ELSE base[i]
  /\ \A i \in 1..Len(new) : merged[Len(base) + i] = new[i]

UniqueNames(formats) ==
  \A i, j \in 1..Len(formats) : formats[i].name = formats[j].name => i = j

\* C29: merge_formats(base, incoming) replaces in place every base format
\* whose name equals that of an incoming format with the incoming
\* definition, appends the incoming formats with new names after the base
\* formats in incoming order, and leaves the base formats whose names do
\* not occur in incoming unchanged in content and position; merging the
\* same incoming document a second time changes nothing.
C29_MergeReplacesAndAppends ==
  Called("merge_formats") =>
    /\ MergedAsStated(call.args.base.formats, call.args.incoming.formats,
                      call.ret.formats)
    /\ merge_formats(call.ret, call.args.incoming) = call.ret

\* C29 holds of the bases in which no two formats share a name.
C29_MergeIntoUniqueNames ==
  (Called("merge_formats") /\ UniqueNames(call.args.base.formats)) =>
    /\ MergedAsStated(call.args.base.formats, call.args.incoming.formats,
                      call.ret.formats)
    /\ merge_formats(call.ret, call.args.incoming) = call.ret

(***************************************************************************)
(* Properties of the application.                                          *)
(***************************************************************************)
\* the first L and the last L bits of a bit string, position by position
LeftmostBits(bits, L) == [i \in 1..L |-> bits[i]]

RightmostBits(bits, L) == [i \in 1..L |-> bits[Len(bits) - L + i]]

\* what C5 says of one call r of _render_format
WindowOfCompatible(r) ==
  LET L == r.fmt.bit_length IN
  \A j \in 1..Len(FORMATS) :
    /\ r.name = FORMATS[j][1] \o " (leftmost)" =>
         /\ Len(r.binary_string) = L
         /\ r.binary_string = LeftmostBits(last_binary_used, L)
    /\ r.name = FORMATS[j][1] \o " (rightmost)" =>
         /\ Len(r.binary_string) = L
         /\ r.binary_string = RightmostBits(last_binary_used, L)

\* C5: the window decoded for a compatible match of a format of bit_length
\* L against n bits has exactly L bits: bits[0:L] in Leftmost mode and
\* bits[n-L:n] in Rightmost mode.
C5_CompatibleWindow ==
  \A k \in 1..Len(rendered) : WindowOfCompatible(rendered[k])

\* C5 holds of the formats whose bit_length is positive.
C5_CompatibleWindowPositiveLength ==
  \A k \in 1..Len(rendered) :
    rendered[k].fmt.bit_length > 0 => WindowOfCompatible(rendered[k])

\* a compatible match of a format of positive bit_length rendered in
\* Rightmost mode on a window that differs from the leftmost one
C5_SeenRightmost ==
  \E k \in 1..Len(rendered) :
    LET L == rendered[k].fmt.bit_length IN
    /\ L > 0
    /\ L < Len(last_binary_used)
    /\ slice_mode = "right"
    /\ rendered[k].binary_string = RightmostBits(last_binary_used, L)
    /\ rendered[k].binary_string /= LeftmostBits(last_binary_used, L)

\* an entry of the formats document whose parity list covers nothing
RawNoParity(f) ==
  LET parity == rec_get(f, "parity", <<>>) IN
  \A i \in 1..Len(parity) : rec_get(parity[i], "ranges", <<>>) = <<>>

\* a call of _render_format for a format of the catalog that matches n bits
\* by length
Shown(name, fmt, n) ==
  \E k \in 1..Len(rendered) :
    /\ rendered[k].fmt = fmt
    /\ IF n = fmt.bit_length
         THEN rendered[k].name = name
         ELSE rendered[k].name \in {name \o " (leftmost)", name \o " (rightmost)"}

\* C13: a format whose parity list is empty, or holds only rules with empty
\* range lists, gives zero parity checks on every bit window and passes
\* parity on every bit window, so whenever it matches the decoded bits by
\* length it is rendered, in strict mode as in diagnostic mode.
C13_NoParityAlwaysShown ==
  \A i \in 1..Len(formats_doc.formats) :
    LET f == formats_doc.formats[i]
        fmt == dict_at(FORMATS, f.name)
    IN RawNoParity(f) =>
         /\ \A b \in BitStrings :
              verify_parity(b, fmt) = <<>> /\ _parity_all_ok(b, fmt)
         /\ (last_binary_used /= <<>> /\ Len(last_binary_used) >= fmt.bit_length) =>
              Shown(f.name, fmt, Len(last_binary_used))

\* strict mode, 3 bits decoded: the format with two rules without ranges and
\* the CSN format are rendered
C13_Witness ==
  /\ ~show_fails
  /\ slice_mode = "right"
  /\ formats_doc.formats = <<EmptyRangesFormat(MaxBits - 1), CsnFormat(MaxBits - 2)>>
  /\ Len(last_binary_used) = MaxBits - 1
  /\ Len(rendered) = 2
  /\ rendered[1].name = EmptyRangesFormat(MaxBits - 1).name
  /\ rendered[2].name = CsnFormat(MaxBits - 2).name \o " (rightmost)"
  /\ rendered[1].fmt.parity_coverage = <<>>

\* a step that is a decode of valid input: on_calculate ran to the end of
\* process_input without error (the two selections are left alone)
Decoded == messagebox' = None /\ UNCHANGED <<show_fails, slice_mode>>

\* a step that is a decode of invalid input
Refused == messagebox' /= None /\ UNCHANGED <<show_fails, slice_mode>>

\* the formats of a catalog that satisfy a test on their bit_length, in the
\* catalog's order
MatchesOf(catalog, Test(_)) == SelectSeq(catalog, LAMBDA it : Test(it[2].bit_length))

\* one decode result per exact match, on the full bits, then one per
\* compatible match, on the window of the mode
ResultsFor(catalog, bits, mode) ==
  LET n == Len(bits)
      exact == MatchesOf(catalog, LAMBDA L : L = n)
      compatible == MatchesOf(catalog, LAMBDA L : L < n)
  IN [i \in 1..Len(exact) |->
        [binary_string |-> bits, name |-> exact[i][1], fmt |-> exact[i][2]]]
     \o [i \in 1..Len(compatible) |->
          [binary_string |->
             IF mode = "left" THEN LeftmostBits(bits, compatible[i][2].bit_length)
             ELSE RightmostBits(bits, compatible[i][2].bit_length),
           name |-> compatible[i][1]
                      \o (IF mode = "left" THEN " (leftmost)" ELSE " (rightmost)"),
           fmt |-> compatible[i][2]]]

\* the data-model invariants of a format of the catalog
InRange(r, L) == 0 <= r[1] /\ r[1] <= r[2] /\ r[2] < L

WellFormed(fmt) ==
  /\ fmt.bit_length > 0
  /\ \A i \in 1..Len(fmt.fields) : InRange(fmt.fields[i][2], fmt.bit_length)
  /\ \A i \in 1..Len(fmt.parity_coverage) :
       \A j \in 1..Len(fmt.parity_coverage[i].ranges) :
         InRange(fmt.parity_coverage[i].ranges[j], fmt.bit_length)

WellFormedCatalog == \A i \in 1..Len(FORMATS) : WellFormed(FORMATS[i][2])

\* C15: a decode of valid input gives one decode result for every exact
\* match and one for every compatible match, the exact ones on the full bit
\* string, the compatible ones on the window of the slicing mode, exact
\* before compatible and each group in catalog order; a decode of invalid
\* input gives the error and nothing else.  (Stated of the catalogs whose
\* formats are all well-formed.)
C15_OneResultPerMatch ==
  [][/\ (Decoded /\ WellFormedCatalog) =>
          rendered' = ResultsFor(FORMATS, last_binary_used', slice_mode)
     /\ Refused => UNCHANGED <<last_binary_used, txt, tree, last_rows_for_csv,
                               last_format_checks, rendered, canvas>>]_vars

\* C15 holds of the decodes in diagnostic mode, with a catalog whose bit
\* lengths are all positive.
C15_DiagnosticOneResultPerMatch ==
  [][/\ (Decoded /\ show_fails
           /\ \A i \in 1..Len(FORMATS) : FORMATS[i][2].bit_length > 0) =>
          rendered' = ResultsFor(FORMATS, last_binary_used', slice_mode)
     /\ Refused => UNCHANGED <<last_binary_used, txt, tree, last_rows_for_csv,
                               last_format_checks, rendered, canvas>>]_vars

\* the export rows of one decode result, and of a sequence of them
RowsOfResult(r) ==
  LET fields == extract_fields(r.binary_string, r.fmt) IN
  [i \in 1..Len(fields) |->
     [Format |-> r.name, Field |-> fields[i][1], Value |-> fields[i][2].int,
      Hex |-> fields[i][2].hex, BitLength |-> fields[i][2].len,
      Bits |-> fields[i][2].bits]]

RECURSIVE RowsOf(_)
RowsOf(results) ==
  IF results = <<>> THEN <<>>
  ELSE RowsOfResult(Head(results)) \o RowsOf(Tail(results))

\* the results that are rendered: all of them in diagnostic mode, the ones
\* that pass parity in strict mode
PassingResults(results, show) ==
  SelectSeq(results, LAMBDA r : show \/ _parity_all_ok(r.binary_string, r.fmt))

\* what a decode renders of a catalog from which the malformed formats
\* have been taken out
RenderedWithoutMalformed(bits, show, mode) ==
  PassingResults(
    ResultsFor(SelectSeq(FORMATS, LAMBDA it : WellFormed(it[2])), bits, mode),
    show)

NamesOf(results) == {results[i].name : i \in 1..Len(results)}

C17_RowsOfLastDecode ==
  last_binary_used /= <<>> => last_rows_for_csv = RowsOf(rendered)

\* C17 holds of the decodes that find a match.
C17_RowsOfLastMatchingDecode ==
  [][(Decoded /\ _detect_formats(FORMATS, last_binary_used')
                    /= [exact |-> <<>>, compatible |-> <<>>]) =>
       last_rows_for_csv' = RowsOf(rendered')]_vars

(***************************************************************************)
(* Properties of the strict-mode filter and of the decode state.           *)
(***************************************************************************)
\* the candidates of a decode with their windows: the exact matches on the
\* full bit string, then the compatible matches on the slice selected for
\* them
CandidatesOf(bits) ==
  LET found == _detect_formats(FORMATS, bits) IN
  [i \in 1..Len(found.exact) |->
     [binary_string |-> bits, name |-> found.exact[i][1], fmt |-> found.exact[i][2]]]
  \o [i \in 1..Len(found.compatible) |->
       [binary_string |-> use_bits_of(bits, found.compatible[i][2].bit_length),
        name |-> found.compatible[i][1]
                   \o (IF slice_mode = "left" THEN " (leftmost)" ELSE " (rightmost)"),
        fmt |-> found.compatible[i][2]]]

HasNotice(t) == \E i \in 1..Len(t) : t[i] = TXT_NONE_PASSED

\* C25: in strict mode (show parity failures off) a candidate format is
\* rendered iff it passes the overall-pass predicate on its own window (the
\* full bit string for an exact match, the selected slice for a compatible
\* match); with show parity failures on, every candidate is rendered; the
\* "no formats passed parity" notice appears iff at least one candidate
\* matched and none was rendered.
C25_StrictModeFilter ==
  [][Decoded =>
       \E cands \in {CandidatesOf(last_binary_used')} :
         /\ rendered' =
              SelectSeq(cands, LAMBDA r :
                          show_fails \/ _parity_all_ok(r.binary_string, r.fmt))
         /\ show_fails => rendered' = cands
         /\ HasNotice(txt') <=> (cands /= <<>> /\ rendered' = <<>>)]_vars

\* strict mode: of two candidates the one that fails the predicate is left
\* out and the other one is rendered, so there is no notice
C25_Witness ==
  /\ ~show_fails
  /\ messagebox = None
  /\ Len(CandidatesOf(last_binary_used)) = 2
  /\ Len(rendered) = 1
  /\ \E i \in 1..2 :
       LET r == CandidatesOf(last_binary_used)[i] IN
       ~_parity_all_ok(r.binary_string, r.fmt)
  /\ ~HasNotice(txt)

\* strict mode: the only candidate fails the predicate and the notice is
\* shown
C25_SeenNotice ==
  /\ ~show_fails
  /\ messagebox = None
  /\ CandidatesOf(last_binary_used) /= <<>>
  /\ rendered = <<>>
  /\ HasNotice(txt)

\* C26: a decode whose input is invalid reports the error and leaves every
\* piece of decode state unchanged: last_binary_used, last_rows_for_csv,
\* last_format_checks, the summary text and the result table keep the
\* values of the previous decode.
C26_InvalidInputKeepsDecodeState ==
  [][Refused =>
       /\ messagebox'[1].kind = "error"
       /\ UNCHANGED <<last_binary_used, last_rows_for_csv, last_format_checks,
                      txt, tree>>]_vars

\* an invalid input after a decode that rendered a format with parity rules
C26_Witness ==
  /\ messagebox /= None
  /\ last_binary_used /= <<>>
  /\ last_rows_for_csv /= <<>>
  /\ last_format_checks /= <<>>
  /\ txt /= <<>>
  /\ tree /= <<>>

(***************************************************************************)
(* Properties of the format management.                                    *)
(***************************************************************************)
\* C20: at start-up and after every format-management operation (add, edit,
\* delete, clone, import) the catalog FORMATS is the normalization of the
\* current formats document: no sequence of these operations leaves the
\* catalog stale relative to the document.
C20_CatalogIsNormalizedDocument ==
  /\ Normalizable(formats_doc)
  /\ FORMATS = _normalize_formats(formats_doc)

\* C20 holds as long as every entry of the document can be normalized.
C20_CatalogOfReadableDocument ==
  Normalizable(formats_doc) => FORMATS = _normalize_formats(formats_doc)

\* a step of one of the format-management handlers
ManagementStep ==
  SaveFormat \/ DeleteSelectedFormat \/ CloneSelectedFormat \/ MenuImport

\* C21: a decode (on_calculate), whatever its input and mode, leaves the
\* formats document and the catalog FORMATS unchanged; the catalog changes
\* only in a format-management operation, which replaces it as a whole by
\* the normalization of the document it leaves.
C21_CatalogReplacedOnlyByManagement ==
  [][/\ Decode => UNCHANGED <<formats_doc, FORMATS>>
     /\ FORMATS' /= FORMATS =>
          (ManagementStep /\ FORMATS' = _normalize_formats(formats_doc'))]_vars

\* a decode that rendered a format of a catalog replaced before
C21_Witness ==
  /\ ops > 0
  /\ rendered /= <<>>
  /\ FORMATS /= _normalize_formats(DefaultDoc)
  /\ FORMATS = _normalize_formats(formats_doc)

\* the names of the fields of a catalog entry differ pairwise
UniqueFieldNames(fmt) ==
  \A i, j \in 1..Len(fmt.fields) : fmt.fields[i][1] = fmt.fields[j][1] => i = j

\* C22: starting from the default formats, after any sequence of add, edit,
\* clone and import operations every format of the catalog satisfies the
\* data-model invariants: bit_length > 0, 0 <= start <= end < bit_length
\* for every field range and every parity range, and field names unique
\* within the format.
C22_CatalogKeepsDataModelInvariants ==
  \A i \in 1..Len(FORMATS) :
    WellFormed(FORMATS[i][2]) /\ UniqueFieldNames(FORMATS[i][2])

\* C23: starting from a formats document with unique names, after any
\* sequence of add, edit (including rename), clone, delete and import
\* operations no two formats of the document share a name, so the catalog
\* normalized from it has as many entries as the document.
C23_NamesStayUnique ==
  /\ \A i, j \in 1..Len(formats_doc.formats) :
       formats_doc.formats[i].name = formats_doc.formats[j].name => i = j
  /\ Normalizable(formats_doc) => Len(FORMATS) = Len(formats_doc.formats)

\* C24: after any sequence of save_formats calls on the same path the
\* formats file holds the document of the most recent save and the single
\* backup file (path + ".bak") holds the content the formats file had
\* immediately before that save; there is no other copy.
C24_LastWriteWinsWithOneBackup ==
  [][ops' /= ops =>
       /\ disk'.file = Some(formats_doc')
       /\ disk'.bak = disk.file
       /\ DOMAIN disk' = {"file", "bak"}]_vars

\* three saves of three different documents
C24_Witness ==
  /\ ops = MaxOps
  /\ disk.file = Some(formats_doc)
  /\ disk.bak /= None
  /\ disk.bak /= disk.file
  /\ disk.bak /= Some(DefaultDoc)

\* a step of _save_format from the editor as _edit_format opened it on the
\* first entry of a name
SavedAsOpened ==
  /\ \E name \in NamesIn(formats_doc) :
       \E fmt \in {first_named(formats_doc.formats, name)} :
         SaveFormatFrom(fmt, editor_of(fmt[1]))
  /\ UNCHANGED decodeVars

\* C28: opening an existing format in the editor and saving it without
\* changing anything leaves that format's entry in the formats document
\* unchanged (name, bit_length, fields with their role and view attributes,
\* parity rules in their order, csn block) and therefore leaves its
\* normalized catalog entry unchanged.
C28_SaveAsOpenedChangesNothing ==
  [][SavedAsOpened => UNCHANGED <<formats_doc, FORMATS>>]_vars

\* a step of menu_import that ended in its except branch
ImportFailed ==
  /\ MenuImport
  /\ messagebox' = Some([kind |-> "error", title |-> "Import failed"])

\* C30: if an import of a formats file fails at any step (file unreadable or
\* not JSON, merge error, save error, or an entry that cannot be
\* normalized), the formats document in memory, the saved formats file and
\* the catalog are all left exactly as they were before the import.
C30_FailedImportChangesNothing ==
  [][ImportFailed => UNCHANGED <<formats_doc, disk, FORMATS>>]_vars

\* C30 holds of the catalog, and of the imports of a file that cannot be
\* read.
C30_FailedImportKeepsCatalog ==
  [][ImportFailed =>
       /\ UNCHANGED FORMATS
       /\ Normalizable(formats_doc') => UNCHANGED <<formats_doc, disk>>]_vars

====
